---- MODULE Spec2Model ----
(***************************************************************************)
(* Transaction submission and confirmation as written in                   *)
(*   src/examples/stake_token_examples.py  (StakeTokenInteractor, main)    *)
(*   src/test_stake_transactions.py        (the inline build/sign/send     *)
(*                                          blocks of the three steps)     *)
(* against one ledger node.  Both scripts sign with the account of the     *)
(* PRIVATE_KEY environment variable, so two runs share one account.        *)
(***************************************************************************)
EXTENDS Integers, Sequences, FiniteSets, TLC

\* ------------------------------------------------------------------ bounds
\* Receipt lookups one wait performs before its deadline passes
\* (timeout=300 seconds at the library's polling interval).
MaxPolls == 2

\* ------------------------------------------------------- program constants
ChainId == 43113
DefaultGasLimit == 200000
SuccessStatus == 1

\* The two script runs that use the account.
Procs == {"test", "examples"}

\* Gas prices the node may quote (w3.eth.gas_price).
GasPrices == {25}

\* Receipt statuses of the ledger: 1 = success, 0 = reverted.
ReceiptStatuses == {0, 1}

\* Chain id of the network behind the RPC endpoint both scripts connect to
\* (api.avax-test.network, Avalanche Fuji).
NetworkChainId == 43113

\* account.address of Account.from_key(PRIVATE_KEY): the checksummed form.
AccountAddress == "0xAb1"

\* Addresses owner().call() may return: the account's own (as checksummed
\* or as lower-case text) or another one.
OwnerAddresses == {"0xAb1", "0xab1", "0xCd2"}

\* str.lower() on the address texts in use.
Lower(a) ==
    CASE a \in {"0xAb1", "0xab1"} -> "0xab1"
      [] a \in {"0xCd2", "0xcd2"} -> "0xcd2"
      [] OTHER -> a

NoNonce == -1
NoTx == [fn |-> "none", from |-> "", to |-> "", data |-> <<>>, gas |-> 0,
         gasPrice |-> 0, nonce |-> NoNonce, chainId |-> 0]
NoHash == <<>>
NoRaw == <<>>
\* Python's None where a hash may stand.
None == <<"None">>
NoOutcome == "None"
NoReason == "NoReason"
NoReceipt == -1

\* What a finished call hands to its caller.
NoResult == [kind |-> "none", value |-> None, reason |-> NoReason, hash |-> NoHash]

Terminal == {"Confirmed", "Reverted", "TimedOut", "Failed"}

VARIABLES
    txCount,    \* node: transactions of the account included in the ledger
    pool,       \* node: pending transactions of the account
    receipts,   \* node: <<hash, status>> of the included transactions whose
                \*       hash a run still holds (no one can ask for the others)
    contractOwner, \* node: the address owner().call() returns
    pc,         \* per run: position in the script
    idx,        \* per run: step of the script being executed
    nonce,      \* per run: local `nonce`
    gasPrice,   \* per run: local `gas_price`
    tx,         \* per run: local `tx` (the built transaction)
    signed,     \* per run: local `signed_tx`
    raw,        \* per run: signed_tx.raw_transaction
    txHash,     \* per run: local `tx_hash`
    elapsed,    \* per run: receipt lookups made by the current wait
    receipt,    \* per run: local `receipt` (its status)
    outcome,    \* per run: how the current call ended
    ret,        \* per run: what the current call handed to its caller
    attempts,   \* per run: send_raw_transaction invocations of the current call
    sendResult, \* per run: how send_raw_transaction last answered
    signTries,  \* per run: sign_transaction invocations of the current call
    lastIssued, \* per run: highest nonce of a transaction of this run that the
                \*          node accepted (consumed, whether included or not)
    lastSent,   \* account: nonce of the last transaction handed to broadcast
    deployed,   \* contract: class of the deployed contract instance
    slots,      \* contract: state variables of the instance
    events,     \* contract: events emitted so far, in order
    blockNumber,\* ledger: current block height (block_number())
    last,       \* contract: the most recent invocation and how it ended
    calls       \* contract: Write invocations made so far

vars == <<txCount, pool, receipts, contractOwner, pc, idx, nonce, gasPrice, tx,
          signed, raw, txHash, elapsed, receipt, outcome, ret, attempts,
          sendResult, signTries, lastIssued, lastSent, deployed, slots, events,
          blockNumber, last, calls>>

nodeVars == <<txCount, pool, receipts>>
callVars == <<nonce, gasPrice, tx, signed, raw, txHash, elapsed, receipt,
              outcome, ret, attempts, sendResult, signTries>>
contractVars == <<deployed, slots, events, blockNumber, last, calls>>
\* What no step of a script changes: the contract's owner and, in the runs
\* of the scripts, the state of the contract classes.
staticVars == <<contractOwner, contractVars>>
scriptVars == <<txCount, pool, receipts, pc, idx, callVars, lastIssued, lastSent>>

\* ---------------------------------------------------------------- scripts
\* guard: "owner" = run when the account is the owner, "read" = run when a
\* balance/flag read allows it, "always" = unconditional.  reads: contract
\* reads (.call()) precede the step.  skipTo: the step that follows when the
\* guard says no.
TestProgram ==
    << [fn |-> "mint",     gas |-> 200000, guard |-> "owner", reads |-> TRUE, skipTo |-> 2],
       [fn |-> "transfer", gas |-> 100000, guard |-> "read",  reads |-> TRUE, skipTo |-> 3],
       [fn |-> "stake",    gas |-> 150000, guard |-> "read",  reads |-> TRUE, skipTo |-> 4] >>

ExamplesProgram ==
    << [fn |-> "mint",          gas |-> DefaultGasLimit, guard |-> "owner",  reads |-> TRUE, skipTo |-> 2],
       [fn |-> "transfer",      gas |-> DefaultGasLimit, guard |-> "always", reads |-> FALSE, skipTo |-> 3],
       [fn |-> "stake",         gas |-> DefaultGasLimit, guard |-> "read",   reads |-> TRUE, skipTo |-> 5],
       [fn |-> "unstake",       gas |-> DefaultGasLimit, guard |-> "always", reads |-> TRUE, skipTo |-> 5],
       [fn |-> "setRewardRate", gas |-> DefaultGasLimit, guard |-> "owner",  reads |-> TRUE, skipTo |-> 8],
       [fn |-> "pause",         gas |-> DefaultGasLimit, guard |-> "read",   reads |-> TRUE, skipTo |-> 8],
       [fn |-> "unpause",       gas |-> DefaultGasLimit, guard |-> "owner",  reads |-> TRUE, skipTo |-> 8] >>

Program(p) == IF p = "test" THEN TestProgram ELSE ExamplesProgram

\* Fault variant: no step has an except of its own.
CatchesNoStep(p) == FALSE

\* test_stake_transactions wraps every step in try/except and goes on;
\* main() of the examples has one try/except around everything.
CatchesPerStep(p) == p = "test"

\* -------------------------------------------------------------- helpers
\* keccak of the signed payload: equal transactions have equal hashes,
\* different ones different hashes.
HashOf(t) == <<t.from, t.data, t.gas, t.gasPrice, t.nonce, t.chainId>>

Max(a, b) == IF a >= b THEN a ELSE b

\* signed_tx.raw_transaction: the encoded fields of the transaction with the
\* account's signature, from which the node recovers the sender.
RawOf(t) == <<t.nonce, t.gasPrice, t.gas, t.to, t.data, t.chainId, <<"sig", t.from>> >>

\* The transaction the node decodes from a raw payload.
TxOfRaw(r) ==
    IF r = NoRaw
    THEN NoTx
    ELSE [fn |-> "call", from |-> r[7][2], to |-> r[4], data |-> r[5],
          gas |-> r[3], gasPrice |-> r[2], nonce |-> r[1], chainId |-> r[6]]

\* No contract class is followed while the scripts run: the node executes
\* the deployed contract, and its receipts stand for the execution.
NoError == "ok"
NoCall ==
    [fn |-> "none", args |-> <<>>, sender |-> "", tag |-> "none",
     declared |-> "none", err |-> NoError, ret |-> None, status |-> NoReceipt,
     pre |-> [slots |-> <<>>, events |-> <<>>], block |-> 0, dirty |-> FALSE]
NoContract ==
    /\ deployed = "none"
    /\ slots = <<>>
    /\ events = <<>>
    /\ blockNumber = 0
    /\ last = NoCall
    /\ calls = 0

\* A script right after its set-up (contract instance and account created).
ScriptStart ==
    /\ txCount = 0
    /\ pool = {}
    /\ receipts = {}
    /\ pc = [p \in Procs |-> "begin"]
    /\ idx = [p \in Procs |-> 1]
    /\ nonce = [p \in Procs |-> NoNonce]
    /\ gasPrice = [p \in Procs |-> 0]
    /\ tx = [p \in Procs |-> NoTx]
    /\ signed = [p \in Procs |-> FALSE]
    /\ raw = [p \in Procs |-> NoRaw]
    /\ txHash = [p \in Procs |-> NoHash]
    /\ elapsed = [p \in Procs |-> 0]
    /\ receipt = [p \in Procs |-> NoReceipt]
    /\ outcome = [p \in Procs |-> NoOutcome]
    /\ ret = [p \in Procs |-> NoResult]
    /\ attempts = [p \in Procs |-> 0]
    /\ sendResult = [p \in Procs |-> "none"]
    /\ signTries = [p \in Procs |-> 0]
    /\ lastIssued = [p \in Procs |-> NoNonce]
    /\ lastSent = NoNonce

Init ==
    /\ contractOwner \in OwnerAddresses
    /\ ScriptStart
    /\ NoContract

\* ------------------------------------------------------- results of a call
\* `return tx_hash.hex()` in send_transaction; the inline blocks of the
\* test script only print and hand nothing on.
ConfirmedResult(p) ==
    IF p = "examples"
    THEN [kind |-> "return", value |-> txHash[p], reason |-> NoReason, hash |-> txHash[p]]
    ELSE [kind |-> "return", value |-> None, reason |-> NoReason, hash |-> NoHash]

\* `return None` in send_transaction; a print in the inline blocks.
RevertedResult(p) ==
    [kind |-> "return", value |-> None, reason |-> NoReason, hash |-> NoHash]

\* Fault variant: the deadline is swallowed and the call returns None, as
\* for a reverted receipt.
TimeoutAsNone(p) ==
    [kind |-> "return", value |-> None, reason |-> NoReason, hash |-> NoHash]

\* wait_for_transaction_receipt raises TimeExhausted, whose message names
\* the transaction hash; neither script catches it inside the call.
TimeoutResult(p) ==
    [kind |-> "raise", value |-> None, reason |-> "TimeExhausted", hash |-> txHash[p]]

\* Any other exception of a library call, propagated unchanged.
Raised(why) ==
    [kind |-> "raise", value |-> None, reason |-> why, hash |-> NoHash]

EndCall(p, how, result) ==
    /\ outcome' = [outcome EXCEPT ![p] = how]
    /\ ret' = [ret EXCEPT ![p] = result]
    /\ pc' = [pc EXCEPT ![p] = "returned"]

\* ------------------------------------------------------------ the scripts
StepOf(p) == Program(p)[idx[p]]

\* Fault variant: the helper sends without comparing the addresses.
IsOwnerUnchecked == TRUE

\* The comparison in front of the owner-only steps:
\* account.address.lower() == owner.lower()
IsOwner == Lower(AccountAddress) = Lower(contractOwner)

NextPc(p, i) == IF i > Len(Program(p)) THEN "done" ELSE "begin"

\* Fault variant: the reads in front of a step are sent as transactions and
\* use up a nonce of the account.
BeginReadsAsTx(p) ==
    /\ pc[p] = "begin"
    /\ \E choice \in {"run", "skip", "error"} :
          IF choice = "run"
          THEN /\ StepOf(p).guard = "owner" => IsOwner
               /\ pc' = [pc EXCEPT ![p] = "nonce"]
               /\ idx' = idx
          ELSE IF choice = "skip"
          THEN /\ StepOf(p).guard # "always"
               /\ StepOf(p).guard = "owner" => ~IsOwner
               /\ idx' = [idx EXCEPT ![p] = StepOf(p).skipTo]
               /\ pc' = [pc EXCEPT ![p] = NextPc(p, StepOf(p).skipTo)]
          ELSE /\ StepOf(p).reads
               /\ IF CatchesPerStep(p)
                  THEN /\ idx' = [idx EXCEPT ![p] = @ + 1]
                       /\ pc' = [pc EXCEPT ![p] = NextPc(p, idx[p] + 1)]
                  ELSE /\ idx' = idx
                       /\ pc' = [pc EXCEPT ![p] = "done"]
    /\ txCount' = IF StepOf(p).reads THEN txCount + 1 ELSE txCount
    /\ UNCHANGED <<pool, receipts, staticVars, callVars, lastIssued, lastSent>>

\* The guard in front of a step: the owner comparison, a balance or flag
\* read, or nothing.  A failing read raises: the test script's per-step
\* except goes on with the next step, main() of the examples stops.
Begin(p) ==
    /\ pc[p] = "begin"
    /\ \E choice \in {"run", "skip", "error"} :
          IF choice = "run"
          THEN /\ StepOf(p).guard = "owner" => IsOwner
               /\ pc' = [pc EXCEPT ![p] = "nonce"]
               /\ idx' = idx
          ELSE IF choice = "skip"
          THEN /\ StepOf(p).guard # "always"
               /\ StepOf(p).guard = "owner" => ~IsOwner
               /\ idx' = [idx EXCEPT ![p] = StepOf(p).skipTo]
               /\ pc' = [pc EXCEPT ![p] = NextPc(p, StepOf(p).skipTo)]
          ELSE /\ StepOf(p).reads
               /\ IF CatchesPerStep(p)
                  THEN /\ idx' = [idx EXCEPT ![p] = @ + 1]
                       /\ pc' = [pc EXCEPT ![p] = NextPc(p, idx[p] + 1)]
                  ELSE /\ idx' = idx
                       /\ pc' = [pc EXCEPT ![p] = "done"]
    /\ UNCHANGED <<nodeVars, staticVars, callVars, lastIssued, lastSent>>

\* nonce = w3.eth.get_transaction_count(account.address): the node's count
\* of included transactions of the account (block "latest").
ResolveNonce(p) == txCount

QueryNonceOk(p) ==
    /\ nonce' = [nonce EXCEPT ![p] = ResolveNonce(p)]
    /\ pc' = [pc EXCEPT ![p] = "gasprice"]
    /\ UNCHANGED <<outcome, ret>>

QueryNonceFails(p) ==
    /\ EndCall(p, "Failed", Raised("ConnectionError"))
    /\ UNCHANGED nonce

QueryNonce(p) ==
    /\ pc[p] = "nonce"
    /\ (QueryNonceOk(p) \/ QueryNonceFails(p))
    /\ UNCHANGED <<nodeVars, staticVars, idx, gasPrice, tx, signed, raw, txHash, elapsed,
                   receipt, attempts, sendResult, signTries, lastIssued, lastSent>>

\* gas_price = w3.eth.gas_price
QueryGasPrice(p) ==
    /\ pc[p] = "gasprice"
    /\ \/ /\ \E g \in GasPrices : gasPrice' = [gasPrice EXCEPT ![p] = g]
          /\ pc' = [pc EXCEPT ![p] = "build"]
          /\ UNCHANGED <<outcome, ret>>
       \/ /\ EndCall(p, "Failed", Raised("ConnectionError"))
          /\ UNCHANGED gasPrice
    /\ UNCHANGED <<nodeVars, staticVars, idx, nonce, tx, signed, raw, txHash, elapsed,
                   receipt, attempts, sendResult, signTries, lastIssued, lastSent>>

\* Fault variant: the transaction is built for the mainnet chain id.
BuildTxOtherChain(p) ==
    [fn |-> "call", from |-> "account", to |-> "StakeToken",
     data |-> <<p, StepOf(p).fn>>, gas |-> StepOf(p).gas,
     gasPrice |-> gasPrice[p], nonce |-> nonce[p], chainId |-> 43114]

\* function_call.build_transaction({...})
BuildTx(p) ==
    [fn |-> "call", from |-> "account", to |-> "StakeToken",
     data |-> <<p, StepOf(p).fn>>, gas |-> StepOf(p).gas,
     gasPrice |-> gasPrice[p], nonce |-> nonce[p], chainId |-> ChainId]

Build(p) ==
    /\ pc[p] = "build"
    /\ tx' = [tx EXCEPT ![p] = BuildTx(p)]
    /\ pc' = [pc EXCEPT ![p] = "sign"]
    /\ UNCHANGED <<nodeVars, staticVars, idx, nonce, gasPrice, signed, raw, txHash, elapsed,
                   receipt, outcome, ret, attempts, sendResult, signTries,
                   lastIssued, lastSent>>

\* Fault variant: a signing error is swallowed and the call goes on.
SignFailsSwallowed(p) ==
    /\ pc' = [pc EXCEPT ![p] = "send"]
    /\ UNCHANGED <<outcome, ret, signed, raw>>

\* signed_tx = account.sign_transaction(tx)
SignOk(p) ==
    /\ signed' = [signed EXCEPT ![p] = TRUE]
    /\ raw' = [raw EXCEPT ![p] = RawOf(tx[p])]
    /\ pc' = [pc EXCEPT ![p] = "send"]
    /\ UNCHANGED <<outcome, ret>>

\* sign_transaction raises: the exception leaves the call.
SignFails(p) ==
    /\ EndCall(p, "Failed", Raised("SignError"))
    /\ UNCHANGED <<signed, raw>>

Sign(p) ==
    /\ pc[p] = "sign"
    /\ signTries' = [signTries EXCEPT ![p] = @ + 1]
    /\ (SignOk(p) \/ SignFails(p))
    /\ UNCHANGED <<nodeVars, staticVars, idx, nonce, gasPrice, tx, txHash, elapsed,
                   receipt, attempts, sendResult, lastIssued, lastSent>>

\* ------------------------------------------------------------- broadcast
\* The node takes a transaction whose nonce is not used up and for which it
\* holds no pending transaction of the same nonce at the same or a higher
\* price ("nonce too low", "replacement transaction underpriced").
NodeTakes(t) ==
    /\ t.nonce >= txCount
    /\ \A u \in pool : u.nonce = t.nonce => u.gasPrice < t.gasPrice

\* What send_raw_transaction(signed_tx.raw_transaction) hands to the node.
Sent(p) == TxOfRaw(raw[p])

\* tx_hash = w3.eth.send_raw_transaction(signed_tx.raw_transaction), accepted.
SendAccepted(p) ==
    /\ NodeTakes(Sent(p))
    /\ pool' = {u \in pool : u.nonce # Sent(p).nonce} \cup {Sent(p)}
    /\ txHash' = [txHash EXCEPT ![p] = HashOf(Sent(p))]
    /\ sendResult' = [sendResult EXCEPT ![p] = "accepted"]
    /\ lastIssued' = [lastIssued EXCEPT ![p] = Max(@, Sent(p).nonce)]
    /\ pc' = [pc EXCEPT ![p] = "wait"]
    /\ UNCHANGED <<outcome, ret>>

\* The node answers with an error (nonce too low, underpriced, insufficient
\* funds, malformed): the exception leaves the call.
SendRejected(p) ==
    /\ sendResult' = [sendResult EXCEPT ![p] = "rejected"]
    /\ EndCall(p, "Failed", Raised("NodeRejected"))
    /\ UNCHANGED <<pool, txHash, lastIssued>>

\* The request does not reach the node (connection error, HTTP timeout):
\* the exception leaves the call.
SendTransient(p) ==
    /\ sendResult' = [sendResult EXCEPT ![p] = "transient"]
    /\ EndCall(p, "Failed", Raised("ConnectionError"))
    /\ UNCHANGED <<pool, txHash, lastIssued>>

Send(p) ==
    /\ pc[p] = "send"
    /\ attempts' = [attempts EXCEPT ![p] = @ + 1]
    /\ lastSent' = Sent(p).nonce
    /\ (SendAccepted(p) \/ SendRejected(p) \/ SendTransient(p))
    /\ UNCHANGED <<txCount, receipts, staticVars, idx, nonce, gasPrice, tx, signed, raw,
                   elapsed, receipt, signTries>>

\* ---------------------------------------------------------- confirmation
\* Fault variant: any receipt counts as success (`if receipt:`).
AnyReceiptIsSuccess(status) == TRUE

\* if receipt.status == 1:
IsSuccess(status) == status = SuccessStatus

\* Fault variant: a wait without a deadline.
NeverExpired(n) == FALSE

\* The deadline of wait_for_transaction_receipt(tx_hash, timeout=300).
Expired(n) == n >= MaxPolls

\* Fault variant: a reverted receipt sends the transaction again.
OnReceiptResubmit(p, status) ==
    IF status = SuccessStatus
    THEN EndCall(p, "Confirmed", ConfirmedResult(p))
    ELSE /\ pc' = [pc EXCEPT ![p] = "send"]
         /\ UNCHANGED <<outcome, ret>>

\* The if/else after the wait: return tx_hash.hex() or return None.
OnReceipt(p, status) ==
    IF IsSuccess(status)
    THEN EndCall(p, "Confirmed", ConfirmedResult(p))
    ELSE EndCall(p, "Reverted", RevertedResult(p))

\* One lookup found the receipt.
PollFound(p) ==
    /\ \E r \in receipts :
          /\ r[1] = txHash[p]
          /\ receipt' = [receipt EXCEPT ![p] = r[2]]
          /\ OnReceipt(p, r[2])
    /\ UNCHANGED elapsed

\* One lookup found nothing: sleep, and raise TimeExhausted at the deadline.
PollAbsent(p) ==
    /\ \A r \in receipts : r[1] # txHash[p]
    /\ elapsed' = [elapsed EXCEPT ![p] = IF @ < MaxPolls THEN @ + 1 ELSE @]
    /\ IF Expired(elapsed[p] + 1)
       THEN EndCall(p, "TimedOut", TimeoutResult(p))
       ELSE UNCHANGED <<outcome, ret, pc>>
    /\ UNCHANGED receipt

\* One lookup failed with a connection error: it is not caught by the wait.
PollError(p) ==
    /\ EndCall(p, "Failed", Raised("ConnectionError"))
    /\ UNCHANGED <<elapsed, receipt>>

\* receipt = w3.eth.wait_for_transaction_receipt(tx_hash, timeout=300)
Poll(p) ==
    /\ pc[p] = "wait"
    /\ (PollFound(p) \/ PollAbsent(p) \/ PollError(p))
    /\ UNCHANGED <<nodeVars, staticVars, idx, nonce, gasPrice, tx, signed, raw, txHash,
                   attempts, sendResult, signTries, lastIssued, lastSent>>

\* The caller after the call: the next step, or the end of main() when an
\* exception reached it.
Continue(p) ==
    /\ pc[p] = "returned"
    /\ IF ret[p].kind = "raise" /\ ~CatchesPerStep(p)
       THEN /\ pc' = [pc EXCEPT ![p] = "done"]
            /\ idx' = idx
       ELSE /\ pc' = [pc EXCEPT ![p] = NextPc(p, idx[p] + 1)]
            /\ idx' = [idx EXCEPT ![p] = @ + 1]
    /\ nonce' = [nonce EXCEPT ![p] = NoNonce]
    /\ gasPrice' = [gasPrice EXCEPT ![p] = 0]
    /\ tx' = [tx EXCEPT ![p] = NoTx]
    /\ signed' = [signed EXCEPT ![p] = FALSE]
    /\ raw' = [raw EXCEPT ![p] = NoRaw]
    /\ txHash' = [txHash EXCEPT ![p] = NoHash]
    /\ elapsed' = [elapsed EXCEPT ![p] = 0]
    /\ receipt' = [receipt EXCEPT ![p] = NoReceipt]
    /\ outcome' = [outcome EXCEPT ![p] = NoOutcome]
    /\ ret' = [ret EXCEPT ![p] = NoResult]
    /\ attempts' = [attempts EXCEPT ![p] = 0]
    /\ sendResult' = [sendResult EXCEPT ![p] = "none"]
    /\ signTries' = [signTries EXCEPT ![p] = 0]
    /\ receipts' = {r \in receipts : r[1] # txHash[p]}
    /\ UNCHANGED <<txCount, pool, staticVars, lastIssued, lastSent>>

\* ---------------------------------------------------------------- the node
\* The ledger includes the pending transaction whose nonce is next, with
\* either status, and publishes its receipt.
Holders(h) == {p \in Procs : txHash[p] = h}

Mine ==
    /\ \E t \in pool, s \in ReceiptStatuses :
          /\ t.nonce = txCount
          /\ receipts' = receipts \cup {<<HashOf(t), s>> : p \in Holders(HashOf(t))}
          /\ pool' = pool \ {t}
          /\ txCount' = txCount + 1
    /\ UNCHANGED <<staticVars, pc, idx, callVars, lastIssued, lastSent>>

\* ------------------------------------------------------------------ specs
RunStep(p) ==
    \/ Begin(p)
    \/ QueryNonce(p)
    \/ QueryGasPrice(p)
    \/ Build(p)
    \/ Sign(p)
    \/ Send(p)
    \/ Poll(p)
    \/ Continue(p)

Next == Mine \/ \E p \in Procs : RunStep(p)

Spec == Init /\ [][Next]_vars

\* The scripts run one after the other on the account: a run takes steps
\* only while the other has not started or has ended.
Started(p) == ~(pc[p] = "begin" /\ idx[p] = 1)

Alone(p) == \A q \in Procs \ {p} : ~Started(q) \/ pc[q] = "done"

SeqStep(p) ==
    \/ Alone(p) /\ Begin(p)
    \/ Alone(p) /\ QueryNonce(p)
    \/ Alone(p) /\ QueryGasPrice(p)
    \/ Alone(p) /\ Build(p)
    \/ Alone(p) /\ Sign(p)
    \/ Alone(p) /\ Send(p)
    \/ Alone(p) /\ Poll(p)
    \/ Alone(p) /\ Continue(p)

SeqNext == Mine \/ \E p \in Procs : SeqStep(p)

SeqSpec == Init /\ [][SeqNext]_vars

\* A running script keeps running: it takes its next step, and a wait makes
\* its next lookup.  The node owes nothing: it may never include a
\* transaction, and no lookup has to fail.
ScriptProgress(p) ==
    /\ Alone(p)
    /\ (Begin(p) \/ QueryNonce(p) \/ QueryGasPrice(p) \/ Build(p) \/ Sign(p)
           \/ Send(p) \/ Continue(p))

WaitProgress(p) ==
    /\ Alone(p)
    /\ pc[p] = "wait"
    /\ (PollFound(p) \/ PollAbsent(p))
    /\ UNCHANGED <<nodeVars, staticVars, idx, nonce, gasPrice, tx, signed, raw, txHash,
                   attempts, sendResult, signTries, lastIssued, lastSent>>

FairSeqSpec ==
    SeqSpec /\ \A p \in Procs : WF_vars(ScriptProgress(p)) /\ WF_vars(WaitProgress(p))

InCall(p) == pc[p] \in {"nonce", "gasprice", "build", "sign", "send", "wait"}

Reverting == ReceiptStatuses \ {SuccessStatus}

\* ===================================================================
\* The contract classes (src/contracts, src/my_project/contracts)
\* ===================================================================

\* Write invocations followed on one deployed instance, and on a Counter
\* (whose methods take no arguments).
MaxCalls == 2
MaxCounterCalls == 3
MaxStakeCalls == 3

\* Python dicts used as mappings: a missing key reads as the default.
EmptyMap == [k \in {} |-> 0]
Get(m, k, d) == IF k \in DOMAIN m THEN m[k] ELSE d
Put(m, k, v) == [x \in (DOMAIN m) \cup {k} |-> IF x = k THEN v ELSE m[x]]

\* An invocation in progress: the state variables and the event log as the
\* method body sees them, the exception that left the body (if any), and the
\* value returned.
Enter(s, ev) == [slots |-> s, events |-> ev, err |-> NoError, ret |-> None]

\* raise Exception(msg): leaves the method; the statements after it do not
\* run.
Raise(st, msg) == IF st.err # NoError THEN st ELSE [st EXCEPT !.err = msg]

\* self.require(cond, msg)
require(st, cond, msg) == IF cond THEN st ELSE Raise(st, msg)

\* return value
Return(st, v) == IF st.err # NoError THEN st ELSE [st EXCEPT !.ret = v]

\* Fault variant: the framework lets any operation assign a state variable.
writeUntagged(c, st, name, v) ==
    IF st.err # NoError THEN st ELSE [st EXCEPT !.slots = [@ EXCEPT ![name] = v]]

\* Assignment to a state variable (self.<name> = v): permitted while a
\* Write operation executes, a VisibilityViolation in a Read operation.
write(c, st, name, v) ==
    IF st.err # NoError THEN st
    ELSE IF c.tag # "Write" THEN [st EXCEPT !.err = "VisibilityViolation"]
    ELSE [st EXCEPT !.slots = [@ EXCEPT ![name] = v]]

\* self.event(name, payload...): same rule as write.
emit(c, st, name, payload) ==
    IF st.err # NoError THEN st
    ELSE IF c.tag # "Write" THEN [st EXCEPT !.err = "VisibilityViolation"]
    ELSE [st EXCEPT !.events = Append(@, <<name, payload>>)]

\* ------------------------------------------------------------- Counter
Counter_init == [count |-> 0]

\* Fault variant: the event carries the count read before the assignment.
Counter_increment_stale(c, st) ==
    emit(c, write(c, st, "count", st.slots.count + 1), "Incremented",
         <<st.slots.count>>)

Counter_increment(c, st) ==
    LET count == st.slots.count + 1
    IN  emit(c, write(c, st, "count", count), "Incremented", <<count>>)

\* Fault variant: decrement without the test for count > 0.
Counter_decrement_unguarded(c, st) ==
    emit(c, write(c, st, "count", st.slots.count - 1), "Decremented",
         <<st.slots.count - 1>>)

Counter_decrement(c, st) ==
    IF st.slots.count > 0
    THEN LET count == st.slots.count - 1
         IN  emit(c, write(c, st, "count", count), "Decremented", <<count>>)
    ELSE st

Counter_get_count(c, st) == Return(st, st.slots.count)

Counter_reset(c, st) == emit(c, write(c, st, "count", 0), "Reset", <<>>)

\* The methods with their decorators: @public_function is a Write
\* operation, @view_function a Read operation.
CounterMethods ==
    { [fn |-> "increment", args |-> <<>>, tag |-> "Write"],
      [fn |-> "decrement", args |-> <<>>, tag |-> "Write"],
      [fn |-> "get_count", args |-> <<>>, tag |-> "Read"],
      [fn |-> "reset",     args |-> <<>>, tag |-> "Write"] }

CounterRun(m, c, st) ==
    CASE m.fn = "increment" -> Counter_increment(c, st)
      [] m.fn = "decrement" -> Counter_decrement(c, st)
      [] m.fn = "get_count" -> Counter_get_count(c, st)
      [] m.fn = "reset"     -> Counter_reset(c, st)

\* ------------------------------------------------------- SimpleStorage
\* Values passed to set.
StorageValues == {0, 1, 2}

SimpleStorage_init == [stored_data |-> 0]

SimpleStorage_set(c, st, value) ==
    emit(c, write(c, st, "stored_data", value), "DataStored", <<value>>)

SimpleStorage_get(c, st) == Return(st, st.slots.stored_data)

SimpleStorageMethods ==
    { [fn |-> "set", args |-> <<v>>, tag |-> "Write"] : v \in StorageValues }
        \cup { [fn |-> "get", args |-> <<>>, tag |-> "Read"] }

SimpleStorageRun(m, c, st) ==
    CASE m.fn = "set" -> SimpleStorage_set(c, st, m.args[1])
      [] m.fn = "get" -> SimpleStorage_get(c, st)

\* ------------------------------------------------------- BeginnerToken
\* msg_sender() values: textual addresses; the first one deploys.
Callers == {"alice", "bob"}
Deployer == "alice"

\* Amounts passed to the token methods: a negative number, nothing, one
\* token, and more than was ever issued.
TokenAmounts == {-1, 0, 1, 1000001}

\* self.balances.get(account, 0)
BalanceOf(st, account) == Get(st.slots.balances, account, 0)

\* Fault variant: both balances are read before either is assigned.
MovedFromStaleReads(balances, from, to, amount) ==
    Put(Put(balances, from, Get(balances, from, 0) - amount),
        to, Get(balances, to, 0) + amount)

\* balances after `balances[from] = balances.get(from, 0) - amount` and then
\* `balances[to] = balances.get(to, 0) + amount`.
Moved(balances, from, to, amount) ==
    LET b1 == Put(balances, from, Get(balances, from, 0) - amount)
    IN  Put(b1, to, Get(b1, to, 0) + amount)

BeginnerToken_init ==
    [name |-> "BeginnerCoin", symbol |-> "BGN", total_supply |-> 1000000,
     balances |-> Put(EmptyMap, Deployer, 1000000), owner |-> Deployer]

BeginnerToken_get_name(c, st) == Return(st, st.slots.name)

BeginnerToken_get_symbol(c, st) == Return(st, st.slots.symbol)

BeginnerToken_get_total_supply(c, st) == Return(st, st.slots.total_supply)

BeginnerToken_balance_of(c, st, account) == Return(st, BalanceOf(st, account))

\* Fault variant: the balance check is missing.
BeginnerToken_transfer_unchecked(c, st, to, amount) ==
    emit(c, write(c, st, "balances", Moved(st.slots.balances, c.sender, to, amount)),
         "Transfer", <<c.sender, to, amount>>)

BeginnerToken_transfer(c, st, to, amount) ==
    LET sender == c.sender
    IN  IF BalanceOf(st, sender) < amount
        THEN Raise(st, "Not enough tokens!")
        ELSE IF amount <= 0
        THEN Raise(st, "Amount must be positive!")
        ELSE emit(c, write(c, st, "balances",
                           Moved(st.slots.balances, sender, to, amount)),
                  "Transfer", <<sender, to, amount>>)

\* Fault variant: mint without the owner comparison.
BeginnerToken_mint_by_anyone(c, st, amount) ==
    IF amount <= 0
    THEN Raise(st, "Amount must be positive!")
    ELSE emit(c, write(c, write(c, st, "total_supply", st.slots.total_supply + amount),
                       "balances",
                       Put(st.slots.balances, st.slots.owner,
                           BalanceOf(st, st.slots.owner) + amount)),
              "Mint", <<st.slots.owner, amount>>)

BeginnerToken_mint(c, st, amount) ==
    LET sender == c.sender
        owner == st.slots.owner
    IN  IF sender # owner
        THEN Raise(st, "Only owner can mint tokens!")
        ELSE IF amount <= 0
        THEN Raise(st, "Amount must be positive!")
        ELSE LET s1 == write(c, st, "total_supply", st.slots.total_supply + amount)
                 s2 == write(c, s1, "balances",
                             Put(st.slots.balances, owner, BalanceOf(st, owner) + amount))
             IN  emit(c, s2, "Mint", <<owner, amount>>)

BeginnerToken_burn(c, st, amount) ==
    LET sender == c.sender
    IN  IF BalanceOf(st, sender) < amount
        THEN Raise(st, "Not enough tokens to burn!")
        ELSE IF amount <= 0
        THEN Raise(st, "Amount must be positive!")
        ELSE LET s1 == write(c, st, "balances",
                             Put(st.slots.balances, sender,
                                 st.slots.balances[sender] - amount))
                 s2 == write(c, s1, "total_supply", st.slots.total_supply - amount)
             IN  emit(c, s2, "Burn", <<sender, amount>>)

BeginnerTokenMethods ==
    { [fn |-> "get_name", args |-> <<>>, tag |-> "Read"],
      [fn |-> "get_symbol", args |-> <<>>, tag |-> "Read"],
      [fn |-> "get_total_supply", args |-> <<>>, tag |-> "Read"] }
        \cup { [fn |-> "balance_of", args |-> <<a>>, tag |-> "Read"] : a \in Callers }
        \cup { [fn |-> "transfer", args |-> <<a, n>>, tag |-> "Write"] :
                  a \in Callers, n \in TokenAmounts }
        \cup { [fn |-> "mint", args |-> <<n>>, tag |-> "Write"] : n \in TokenAmounts }
        \cup { [fn |-> "burn", args |-> <<n>>, tag |-> "Write"] : n \in TokenAmounts }

BeginnerTokenRun(m, c, st) ==
    CASE m.fn = "get_name"         -> BeginnerToken_get_name(c, st)
      [] m.fn = "get_symbol"       -> BeginnerToken_get_symbol(c, st)
      [] m.fn = "get_total_supply" -> BeginnerToken_get_total_supply(c, st)
      [] m.fn = "balance_of"       -> BeginnerToken_balance_of(c, st, m.args[1])
      [] m.fn = "transfer"         -> BeginnerToken_transfer(c, st, m.args[1], m.args[2])
      [] m.fn = "mint"             -> BeginnerToken_mint(c, st, m.args[1])
      [] m.fn = "burn"             -> BeginnerToken_burn(c, st, m.args[1])

\* ------------------------------------------------------- MintableToken
MintableToken_init ==
    [name |-> "MintableToken", symbol |-> "MINT", decimals |-> 18,
     admin |-> Deployer, total_supply |-> 0, balances |-> EmptyMap]

MintableToken_transfer(c, st, to, amount) ==
    LET sender == c.sender
        sender_balance == BalanceOf(st, sender)
        s0 == require(st, amount > 0, "Amount must be positive")
        s1 == require(s0, sender_balance >= amount, "Insufficient balance")
        s2 == write(c, s1, "balances", Moved(st.slots.balances, sender, to, amount))
    IN  emit(c, s2, "Transfer", <<sender, to, amount>>)

MintableToken_mint(c, st, to, amount) ==
    LET sender == c.sender
        s0 == require(st, sender = st.slots.admin, "Only admin can mint")
        s1 == require(s0, amount > 0, "Mint amount must be positive")
        s2 == write(c, s1, "total_supply", st.slots.total_supply + amount)
        s3 == write(c, s2, "balances",
                    Put(st.slots.balances, to, BalanceOf(st, to) + amount))
    IN  emit(c, s3, "Mint", <<to, amount>>)

MintableToken_balance_of(c, st, user) == Return(st, BalanceOf(st, user))

MintableToken_get_total_supply(c, st) == Return(st, st.slots.total_supply)

MintableToken_get_name(c, st) == Return(st, st.slots.name)

MintableToken_get_symbol(c, st) == Return(st, st.slots.symbol)

MintableToken_get_decimals(c, st) == Return(st, st.slots.decimals)

MintableTokenMethods ==
    { [fn |-> "get_name", args |-> <<>>, tag |-> "Read"],
      [fn |-> "get_symbol", args |-> <<>>, tag |-> "Read"],
      [fn |-> "get_decimals", args |-> <<>>, tag |-> "Read"],
      [fn |-> "get_total_supply", args |-> <<>>, tag |-> "Read"] }
        \cup { [fn |-> "balance_of", args |-> <<a>>, tag |-> "Read"] : a \in Callers }
        \cup { [fn |-> "transfer", args |-> <<a, n>>, tag |-> "Write"] :
                  a \in Callers, n \in TokenAmounts }
        \cup { [fn |-> "mint", args |-> <<a, n>>, tag |-> "Write"] :
                  a \in Callers, n \in TokenAmounts }

MintableTokenRun(m, c, st) ==
    CASE m.fn = "get_name"         -> MintableToken_get_name(c, st)
      [] m.fn = "get_symbol"       -> MintableToken_get_symbol(c, st)
      [] m.fn = "get_decimals"     -> MintableToken_get_decimals(c, st)
      [] m.fn = "get_total_supply" -> MintableToken_get_total_supply(c, st)
      [] m.fn = "balance_of"       -> MintableToken_balance_of(c, st, m.args[1])
      [] m.fn = "transfer"         -> MintableToken_transfer(c, st, m.args[1], m.args[2])
      [] m.fn = "mint"             -> MintableToken_mint(c, st, m.args[1], m.args[2])

\* ---------------------------------------------------------- StakeToken
\* Accounts are integer tags here: 1 is the owner, anything else the user.
StakeAccounts == {1, 2}

\* Amounts passed to transfer, mint, stake, unstake; rates passed to
\* set_reward_rate.
StakeAmounts == {10, 20}
StakeRates == {5, 50}

StakeToken_init ==
    [name |-> "StakeableToken", symbol |-> "STK", decimals |-> 18,
     total_supply |-> 1000000, owner |-> 1, is_paused |-> 0,
     owner_balance |-> 1000000, user_balance |-> 0, user_stake |-> 0,
     user_reward |-> 0, reward_rate |-> 10]

StakeToken_get_name(c, st) == Return(st, st.slots.name)

StakeToken_get_symbol(c, st) == Return(st, st.slots.symbol)

StakeToken_get_decimals(c, st) == Return(st, st.slots.decimals)

StakeToken_get_total_supply(c, st) == Return(st, st.slots.total_supply)

StakeToken_balance_of(c, st, account) ==
    IF account = 1
    THEN Return(st, st.slots.owner_balance)
    ELSE Return(st, st.slots.user_balance)

StakeToken_stake_of(c, st, account) ==
    IF account = 1 THEN Return(st, 0) ELSE Return(st, st.slots.user_stake)

StakeToken_reward_of(c, st, account) ==
    IF account = 1 THEN Return(st, 0) ELSE Return(st, st.slots.user_reward)

StakeToken_get_reward_rate(c, st) == Return(st, st.slots.reward_rate)

StakeToken_transfer(c, st, to, amount) ==
    IF st.slots.is_paused = 1
    THEN emit(c, st, "TransferFailed", <<"Contract is paused">>)
    ELSE IF st.slots.owner_balance >= amount
    THEN LET s1 == write(c, st, "owner_balance", st.slots.owner_balance - amount)
             s2 == write(c, s1, "user_balance", st.slots.user_balance + amount)
         IN  emit(c, s2, "Transfer", <<amount, to>>)
    ELSE st

StakeToken_mint(c, st, amount) ==
    LET total_supply == st.slots.total_supply + amount
        s1 == write(c, st, "total_supply", total_supply)
        s2 == write(c, s1, "owner_balance", st.slots.owner_balance + amount)
    IN  emit(c, s2, "Mint", <<amount, total_supply>>)

StakeToken_stake(c, st, amount) ==
    IF st.slots.is_paused = 1
    THEN emit(c, st, "StakeFailed", <<"Contract is paused">>)
    ELSE IF st.slots.user_balance >= amount
    THEN LET reward == (amount * st.slots.reward_rate) \div 100
             s1 == write(c, st, "user_balance", st.slots.user_balance - amount)
             s2 == write(c, s1, "user_stake", st.slots.user_stake + amount)
             s3 == write(c, s2, "user_reward", st.slots.user_reward + reward)
         IN  emit(c, s3, "Staked", <<amount, reward>>)
    ELSE st

StakeToken_unstake(c, st, amount) ==
    IF st.slots.user_stake >= amount
    THEN LET reward == st.slots.user_reward
             s1 == write(c, st, "user_stake", st.slots.user_stake - amount)
             s2 == write(c, s1, "user_balance", st.slots.user_balance + amount)
             s3 == write(c, s2, "user_balance", st.slots.user_balance + amount + reward)
             s4 == write(c, s3, "user_reward", 0)
         IN  emit(c, s4, "Unstaked", <<amount, reward>>)
    ELSE st

StakeToken_set_reward_rate(c, st, new_rate) ==
    emit(c, write(c, st, "reward_rate", new_rate), "RewardRateUpdated", <<new_rate>>)

StakeToken_pause(c, st) ==
    emit(c, write(c, st, "is_paused", 1), "ContractPaused", <<>>)

StakeToken_unpause(c, st) ==
    emit(c, write(c, st, "is_paused", 0), "ContractUnpaused", <<>>)

StakeTokenMethods ==
    { [fn |-> "get_name", args |-> <<>>, tag |-> "Read"],
      [fn |-> "get_symbol", args |-> <<>>, tag |-> "Read"],
      [fn |-> "get_decimals", args |-> <<>>, tag |-> "Read"],
      [fn |-> "get_total_supply", args |-> <<>>, tag |-> "Read"],
      [fn |-> "get_reward_rate", args |-> <<>>, tag |-> "Read"],
      [fn |-> "pause", args |-> <<>>, tag |-> "Write"],
      [fn |-> "unpause", args |-> <<>>, tag |-> "Write"] }
        \cup { [fn |-> f, args |-> <<a>>, tag |-> "Read"] :
                  f \in {"balance_of", "stake_of", "reward_of"}, a \in StakeAccounts }
        \cup { [fn |-> "transfer", args |-> <<2, n>>, tag |-> "Write"] : n \in StakeAmounts }
        \cup { [fn |-> f, args |-> <<n>>, tag |-> "Write"] :
                  f \in {"mint", "stake", "unstake"}, n \in StakeAmounts }
        \cup { [fn |-> "set_reward_rate", args |-> <<r>>, tag |-> "Write"] : r \in StakeRates }

StakeTokenRun(m, c, st) ==
    CASE m.fn = "get_name"         -> StakeToken_get_name(c, st)
      [] m.fn = "get_symbol"       -> StakeToken_get_symbol(c, st)
      [] m.fn = "get_decimals"     -> StakeToken_get_decimals(c, st)
      [] m.fn = "get_total_supply" -> StakeToken_get_total_supply(c, st)
      [] m.fn = "get_reward_rate"  -> StakeToken_get_reward_rate(c, st)
      [] m.fn = "balance_of"       -> StakeToken_balance_of(c, st, m.args[1])
      [] m.fn = "stake_of"         -> StakeToken_stake_of(c, st, m.args[1])
      [] m.fn = "reward_of"        -> StakeToken_reward_of(c, st, m.args[1])
      [] m.fn = "transfer"         -> StakeToken_transfer(c, st, m.args[1], m.args[2])
      [] m.fn = "mint"             -> StakeToken_mint(c, st, m.args[1])
      [] m.fn = "stake"            -> StakeToken_stake(c, st, m.args[1])
      [] m.fn = "unstake"          -> StakeToken_unstake(c, st, m.args[1])
      [] m.fn = "set_reward_rate"  -> StakeToken_set_reward_rate(c, st, m.args[1])
      [] m.fn = "pause"            -> StakeToken_pause(c, st)
      [] m.fn = "unpause"          -> StakeToken_unpause(c, st)

\* ---------------------------------------------------------------- Defi
\* Block heights followed after deployment.
MaxBlock == 2

\* Amounts passed to deposit and withdraw; rates passed to
\* set_interest_rate.
DefiAmounts == {0, 200, 500}
DefiRates == {-1000, 1000, 10001}

Defi_init ==
    [admin |-> Deployer, balances |-> EmptyMap, total_deposits |-> 0,
     interest_rate |-> 500, last_update |-> EmptyMap]

\* blocks_passed = block_number() - last_update.get(user, block_number())
BlocksPassed(c, st, user) == c.block - Get(st.slots.last_update, user, c.block)

\* interest = stored * interest_rate * blocks_passed // 100000
PendingInterest(c, st, user) ==
    (BalanceOf(st, user) * st.slots.interest_rate * BlocksPassed(c, st, user))
        \div 100000

\* Fault variant: the interest is credited to the user but not added to
\* total_deposits.
Defi_apply_interest_uncounted(c, st, user) ==
    LET stored == BalanceOf(st, user)
        stamp  == Put(st.slots.last_update, user, c.block)
        interest == PendingInterest(c, st, user)
    IN  IF stored = 0
        THEN write(c, st, "last_update", stamp)
        ELSE IF BlocksPassed(c, st, user) > 0
        THEN IF interest > 0
             THEN write(c, emit(c, write(c, st, "balances",
                                         Put(st.slots.balances, user, stored + interest)),
                                "InterestApplied", <<user, interest>>),
                        "last_update", stamp)
             ELSE write(c, st, "last_update", stamp)
        ELSE st

Defi_apply_interest(c, st, user) ==
    LET stored == BalanceOf(st, user)
        stamp  == Put(st.slots.last_update, user, c.block)
    IN  IF stored = 0
        THEN write(c, st, "last_update", stamp)
        ELSE IF BlocksPassed(c, st, user) > 0
        THEN LET interest == PendingInterest(c, st, user)
             IN  IF interest > 0
                 THEN LET s1 == write(c, st, "balances",
                                      Put(st.slots.balances, user, stored + interest))
                          s2 == write(c, s1, "total_deposits",
                                      st.slots.total_deposits + interest)
                          s3 == emit(c, s2, "InterestApplied", <<user, interest>>)
                      IN  write(c, s3, "last_update", stamp)
                 ELSE write(c, st, "last_update", stamp)
        ELSE st

Defi_deposit(c, st, amount) ==
    LET sender == c.sender
        s0 == require(st, amount > 0, "Deposit amount must be greater than 0")
        s1 == Defi_apply_interest(c, s0, sender)
        s2 == write(c, s1, "balances",
                    Put(s1.slots.balances, sender, BalanceOf(s1, sender) + amount))
        s3 == write(c, s2, "total_deposits", s1.slots.total_deposits + amount)
        s4 == write(c, s3, "last_update", Put(s1.slots.last_update, sender, c.block))
    IN  emit(c, s4, "Deposit", <<sender, amount>>)

Defi_withdraw(c, st, amount) ==
    LET sender == c.sender
        s1 == Defi_apply_interest(c, st, sender)
        current_balance == BalanceOf(s1, sender)
        s2 == require(s1, current_balance >= amount, "Insufficient balance")
        s3 == write(c, s2, "balances",
                    Put(s1.slots.balances, sender, current_balance - amount))
        s4 == write(c, s3, "total_deposits", s1.slots.total_deposits - amount)
        s5 == write(c, s4, "last_update", Put(s1.slots.last_update, sender, c.block))
    IN  emit(c, s5, "Withdraw", <<sender, amount>>)

\* Fault variant: the view settles the pending interest as the Write path
\* does.
Defi_balance_of_settling(c, st, user) ==
    LET s1 == Defi_apply_interest(c, st, user)
    IN  Return(s1, BalanceOf(s1, user))

Defi_balance_of(c, st, user) ==
    LET stored == BalanceOf(st, user)
    IN  IF stored = 0
        THEN Return(st, 0)
        ELSE IF BlocksPassed(c, st, user) > 0
        THEN Return(st, stored + PendingInterest(c, st, user))
        ELSE Return(st, stored)

Defi_get_total_deposits(c, st) == Return(st, st.slots.total_deposits)

\* Fault variant: the rate is set without the admin comparison.
Defi_set_interest_rate_by_anyone(c, st, new_rate) ==
    emit(c, write(c, require(st, new_rate <= 10000, "Rate cannot exceed 100%"),
                  "interest_rate", new_rate),
         "RateChanged", <<new_rate>>)

Defi_set_interest_rate(c, st, new_rate) ==
    LET sender == c.sender
        s0 == require(st, sender = st.slots.admin, "Only admin can change rate")
        s1 == require(s0, new_rate <= 10000, "Rate cannot exceed 100%")
        s2 == write(c, s1, "interest_rate", new_rate)
    IN  emit(c, s2, "RateChanged", <<new_rate>>)

DefiMethods ==
    { [fn |-> "get_total_deposits", args |-> <<>>, tag |-> "Read"] }
        \cup { [fn |-> "balance_of", args |-> <<a>>, tag |-> "Read"] : a \in Callers }
        \cup { [fn |-> f, args |-> <<n>>, tag |-> "Write"] :
                  f \in {"deposit", "withdraw"}, n \in DefiAmounts }
        \cup { [fn |-> "set_interest_rate", args |-> <<r>>, tag |-> "Write"] :
                  r \in DefiRates }

DefiRun(m, c, st) ==
    CASE m.fn = "get_total_deposits" -> Defi_get_total_deposits(c, st)
      [] m.fn = "balance_of"         -> Defi_balance_of(c, st, m.args[1])
      [] m.fn = "deposit"            -> Defi_deposit(c, st, m.args[1])
      [] m.fn = "withdraw"           -> Defi_withdraw(c, st, m.args[1])
      [] m.fn = "set_interest_rate"  -> Defi_set_interest_rate(c, st, m.args[1])

\* ------------------------------------------------- invoking a method
Contracts ==
    {"Counter", "SimpleStorage", "BeginnerToken", "MintableToken", "StakeToken", "Defi"}

\* The instance right after its constructor ran.
Constructed(k) ==
    CASE k = "Counter"       -> Counter_init
      [] k = "SimpleStorage" -> SimpleStorage_init
      [] k = "BeginnerToken" -> BeginnerToken_init
      [] k = "MintableToken" -> MintableToken_init
      [] k = "StakeToken"    -> StakeToken_init
      [] k = "Defi"          -> Defi_init

Methods(k) ==
    CASE k = "Counter"       -> CounterMethods
      [] k = "SimpleStorage" -> SimpleStorageMethods
      [] k = "BeginnerToken" -> BeginnerTokenMethods
      [] k = "MintableToken" -> MintableTokenMethods
      [] k = "StakeToken"    -> StakeTokenMethods
      [] k = "Defi"          -> DefiMethods

Run(k, m, c, st) ==
    CASE k = "Counter"       -> CounterRun(m, c, st)
      [] k = "SimpleStorage" -> SimpleStorageRun(m, c, st)
      [] k = "BeginnerToken" -> BeginnerTokenRun(m, c, st)
      [] k = "MintableToken" -> MintableTokenRun(m, c, st)
      [] k = "StakeToken"    -> StakeTokenRun(m, c, st)
      [] k = "Defi"          -> DefiRun(m, c, st)

\* Who may sign a transaction to the instance.
CallersOf(k) == IF k = "StakeToken" THEN StakeAccounts ELSE Callers

\* A read-only call carries no signer: the body would see the zero address.
Reader(k) == IF k = "StakeToken" THEN 0 ELSE "0x0"

\* Fault variant: what a failed body had already assigned stays.
CommitPartial(pre, post) == post

\* All-or-nothing per call: the effects of a body that failed are dropped.
Commit(pre, post) == IF post.err = NoError THEN post ELSE pre

\* The receipt of the transaction that carried a Write: success, or
\* reverted when the body failed.
StatusOf(post) ==
    IF post.err = NoError THEN SuccessStatus ELSE CHOOSE r \in Reverting : TRUE

\* One invocation of method m by sender, executed as a tag operation.
Invoke(m, sender, tag) ==
    \E c \in {[tag |-> tag, sender |-> sender, block |-> blockNumber]},
       pre \in {Enter(slots, events)} :
    \E post \in {Run(deployed, m, c, pre)} :
    \E done \in {Commit(pre, post)} :
        /\ slots' = done.slots
        /\ events' = done.events
        /\ last' = [fn |-> m.fn, args |-> m.args, sender |-> sender, tag |-> tag,
                    declared |-> m.tag, err |-> post.err,
                    ret |-> IF post.err = NoError THEN post.ret ELSE None,
                    status |-> IF tag = "Write" THEN StatusOf(post) ELSE NoReceipt,
                    pre |-> [slots |-> slots, events |-> events],
                    block |-> blockNumber,
                    dirty |-> (post.slots # slots \/ post.events # events)]
        /\ UNCHANGED <<deployed, blockNumber, contractOwner, scriptVars>>

CallBudget(k) ==
    CASE k = "Counter"    -> MaxCounterCalls
      [] k = "StakeToken" -> MaxStakeCalls
      [] OTHER            -> MaxCalls

\* A transaction that calls a @public_function.
WriteCall ==
    /\ calls < CallBudget(deployed)
    /\ calls' = calls + 1
    /\ \E m \in Methods(deployed), s \in CallersOf(deployed) :
          m.tag = "Write" /\ Invoke(m, s, "Write")

\* A call of a @view_function.
ReadCall ==
    /\ calls' = calls
    /\ \E m \in Methods(deployed) :
          m.tag = "Read" /\ Invoke(m, Reader(deployed), "Read")

\* A method body that assigns or emits, executed as a Read operation (its
\* author decorated it @view_function).
MisdeclaredCall ==
    /\ calls' = calls
    /\ \E m \in Methods(deployed), s \in CallersOf(deployed) :
          m.tag = "Write" /\ Invoke(m, s, "Read")

\* The ledger grows by a block; followed where a contract reads
\* block_number().
NewBlock ==
    /\ deployed = "Defi"
    /\ blockNumber < MaxBlock
    /\ blockNumber' = blockNumber + 1
    /\ UNCHANGED <<deployed, slots, events, last, calls, contractOwner, scriptVars>>

ContractInit ==
    /\ contractOwner = AccountAddress
    /\ ScriptStart
    /\ deployed \in Contracts
    /\ slots = Constructed(deployed)
    /\ events = <<>>
    /\ blockNumber = 0
    /\ last = NoCall
    /\ calls = 0

ContractNext == WriteCall \/ ReadCall \/ MisdeclaredCall \/ NewBlock

ContractSpec == ContractInit /\ [][ContractNext]_vars

\* ===================================================================
\* Properties
\* ===================================================================

\* C1: for Write calls made one after the other from one account, the
\* nonces of the transactions handed to send_raw_transaction go up by
\* exactly one each time (no gap, no repeat), whatever the earlier calls'
\* outcomes were.
C1_SentNoncesConsecutive ==
    [][\A p \in Procs :
          (pc[p] = "send" /\ attempts'[p] = attempts[p] + 1 /\ lastSent # NoNonce)
              => tx[p].nonce = lastSent + 1]_vars

\* C2: while one Write call of the account is under way with its
\* transaction handed to broadcast, no other Write call of the account
\* hands a transaction with the same nonce to broadcast.
C2_NoSharedNonce ==
    [][\A p, q \in Procs :
          (p # q /\ pc[p] = "send" /\ attempts'[p] = attempts[p] + 1
                 /\ InCall(q) /\ attempts[q] > 0)
              => tx[p].nonce # tx[q].nonce]_vars

\* C3: the nonce of every built transaction is
\* max(lastIssued + 1, count reported by the node), so it is never the nonce
\* of an earlier transaction of the same run that the node accepted and has
\* not included yet.
C3_NonceFromMax ==
    \A p \in Procs :
        pc[p] \in {"sign", "send"}
            => tx[p].nonce = Max(lastIssued[p] + 1, nonce[p])

\* C4: every send_transaction call whose broadcast produced a hash hands
\* that hash to its caller in every terminal state, and a reason whenever
\* the state is not Confirmed.
C4_HashAndReasonReturned ==
    (pc["examples"] = "returned" /\ txHash["examples"] # NoHash)
        => /\ outcome["examples"] \in Terminal
           /\ ret["examples"].hash = txHash["examples"]
           /\ outcome["examples"] # "Confirmed"
                  => ret["examples"].reason # NoReason

C6_EveryCallEnds ==
    /\ \A p \in Procs :
          [](InCall(p) => <>(pc[p] = "returned" /\ outcome[p] \in Terminal))
    /\ [](\A p \in Procs : outcome[p] \in Terminal <=> pc[p] = "returned")
    /\ [][\A p \in Procs :
            outcome[p] \in Terminal
                => outcome'[p] = outcome[p] \/ pc'[p] \in {"begin", "done"}]_vars

\* A call that ended while its transaction was still pending at the node.
C6_Witness ==
    \E p \in Procs :
        /\ outcome[p] = "TimedOut"
        /\ tx[p] \in pool
        /\ \A r \in receipts : r[1] # txHash[p]

\* C7: a call ends Confirmed (send_transaction returns the hash) exactly
\* when the receipt it observed for its hash has status 1, and Reverted
\* exactly when it observed a receipt with another status; Reverted is a
\* returned value, not an exception.
C7_ConfirmedIffSuccess ==
    \A p \in Procs :
        pc[p] = "returned"
            => /\ outcome[p] = "Confirmed" <=> receipt[p] = SuccessStatus
               /\ outcome[p] = "Reverted" <=> receipt[p] \in Reverting
               /\ receipt[p] # NoReceipt => <<txHash[p], receipt[p]>> \in receipts
               /\ outcome[p] = "Reverted" => ret[p].kind = "return"
               /\ p = "examples"
                     => ((ret[p].value = txHash[p] /\ txHash[p] # NoHash)
                             <=> receipt[p] = SuccessStatus)

C7_Witness ==
    \E p, q \in Procs :
        /\ pc[p] = "returned" /\ receipt[p] = SuccessStatus
        /\ pc[q] = "returned" /\ receipt[q] \in Reverting

\* C8: a call whose broadcast failed with a transient network error has
\* tried the broadcast again before it ends in Failed.
C8_TransientRetried ==
    \A p \in Procs :
        (pc[p] = "returned" /\ sendResult[p] = "transient")
            => attempts[p] >= 2

\* C9: once the node has rejected the broadcast, or a reverted receipt has
\* been observed, the call has ended (Failed, respectively Reverted) and has
\* handed its transaction to broadcast exactly once.
C9_NoResubmission ==
    \A p \in Procs :
        /\ sendResult[p] = "rejected"
              => pc[p] = "returned" /\ outcome[p] = "Failed" /\ attempts[p] = 1
        /\ receipt[p] \in Reverting
              => pc[p] = "returned" /\ outcome[p] = "Reverted" /\ attempts[p] = 1

C9_Witness ==
    \E p, q \in Procs :
        /\ sendResult[p] = "rejected"
        /\ receipt[q] \in Reverting

\* C10: within a call, nonce and gas price come before the build, the build
\* before signing, signing before the broadcast, an accepted broadcast
\* before any receipt lookup; a failed signing ends the call at once, with
\* one signing attempt and no broadcast.
C10_StepOrder ==
    \A p \in Procs :
        /\ tx[p] # NoTx => nonce[p] # NoNonce /\ gasPrice[p] \in GasPrices
        /\ signTries[p] > 0 => tx[p] # NoTx
        /\ signed[p] => signTries[p] = 1
        /\ attempts[p] > 0 => signed[p]
        /\ (elapsed[p] > 0 \/ receipt[p] # NoReceipt)
              => sendResult[p] = "accepted" /\ txHash[p] = HashOf(tx[p])
        /\ (signTries[p] > 0 /\ ~signed[p])
              => /\ pc[p] = "returned"
                 /\ outcome[p] = "Failed"
                 /\ signTries[p] = 1
                 /\ attempts[p] = 0

C10_Witness ==
    \E p, q \in Procs :
        /\ signTries[p] = 1 /\ ~signed[p] /\ pc[p] = "returned"
        /\ receipt[q] # NoReceipt

\* A step that is a call of a @view_function (a repeated identical call
\* changes nothing at all and is no step).
ViewStep == last' # last /\ last'.tag = "Read" /\ last'.declared = "Read"

\* The call before this step was the same view call with the same arguments.
SameViewAgain ==
    /\ last.tag = "Read" /\ last.declared = "Read"
    /\ last.fn = last'.fn
    /\ last.args = last'.args

\* C11 as stated: a call of a @view_function leaves every state variable
\* and the event log as they were, and two successive calls of the same
\* view with no Write in between return the same value.
C11_ReadsRepeatable ==
    [][ViewStep
          => /\ slots' = slots
             /\ events' = events
             /\ last'.err = NoError
             /\ SameViewAgain => last'.ret = last.ret]_vars

\* C11 amended: a call of a @view_function returns a value and leaves every
\* state variable and the event log as they were, and two successive calls
\* of the same view with no Write in between and at the same block height
\* return the same value.
C11_ReadsChangeNothing ==
    [][ViewStep
          => /\ slots' = slots
             /\ events' = events
             /\ last'.err = NoError
             /\ (SameViewAgain /\ last.block = last'.block)
                    => last'.ret = last.ret]_vars

\* A balance_of call on a Defi pool that returned more than the stored
\* balance (interest is pending) and left the pool as it was.
C11_Witness ==
    /\ deployed = "Defi"
    /\ last.tag = "Read" /\ last.declared = "Read"
    /\ last.fn = "balance_of"
    /\ last.ret > BalanceOf([slots |-> slots], last.args[1])
    /\ slots = last.pre.slots
    /\ events = last.pre.events
    /\ events # <<>>

\* What the body of the last call does when it runs as a Write operation on
\* the state the call found.
AsWrite ==
    Run(deployed, [fn |-> last.fn, args |-> last.args],
        [tag |-> "Write", sender |-> last.sender, block |-> last.block],
        Enter(last.pre.slots, last.pre.events))

\* C12: an assignment to a state variable or an emit goes through only in a
\* Write operation.  A Read operation whose body reaches one fails with
\* VisibilityViolation, and after it the state variables and the event log
\* are what they were before the call; no Write operation fails that way.
C12_WriteOnlyInWrite ==
    /\ last.tag = "Write" => last.err # "VisibilityViolation"
    /\ last.tag = "Read"
          => /\ slots = last.pre.slots
             /\ events = last.pre.events
             /\ ~last.dirty
             /\ (AsWrite.slots # last.pre.slots \/ AsWrite.events # last.pre.events)
                    => last.err = "VisibilityViolation"

\* increment run as a Read operation on a Counter that has counted.
C12_Witness ==
    /\ deployed = "Counter"
    /\ last.tag = "Read"
    /\ last.fn = "increment"
    /\ last.err = "VisibilityViolation"
    /\ slots.count > 0
    /\ events # <<>>

\* The last call was a transaction calling transfer or burn of a token with
\* an amount above the sender's balance.
Overdraw ==
    /\ deployed \in {"BeginnerToken", "MintableToken"}
    /\ last.tag = "Write"
    /\ last.fn \in {"transfer", "burn"}
    /\ last.args[Len(last.args)] > Get(last.pre.slots.balances, last.sender, 0)

\* C13: a transfer or burn of more than the sender holds fails, the body
\* has assigned nothing when it fails, and afterwards every state variable
\* (all balances, total_supply) and the event log are what they were before
\* the call.
C13_OverdrawFailsClean ==
    Overdraw
        => /\ last.err # NoError
           /\ last.status \in Reverting
           /\ ~last.dirty
           /\ slots = last.pre.slots
           /\ events = last.pre.events

\* The deployer of a BeginnerToken moved one token away and then tried to
\* burn more than was ever issued.
C13_Witness ==
    /\ Overdraw
    /\ deployed = "BeginnerToken"
    /\ last.fn = "burn"
    /\ last.sender = Deployer
    /\ last.err = "Not enough tokens to burn!"
    /\ BalanceOf([slots |-> slots], "bob") = 1
    /\ events # <<>>

\* C14: after a transaction whose receipt reports Reverted, the state
\* variables and the event log are what they were before it was sent; a
\* transaction after which they differ has a receipt that reports Success,
\* and the receipt reports Reverted exactly when the method body failed.
C14_RevertedChangesNothing ==
    last.tag = "Write"
        => /\ last.status \in Reverting
                 => slots = last.pre.slots /\ events = last.pre.events
           /\ (slots # last.pre.slots \/ events # last.pre.events)
                 => last.status = SuccessStatus
           /\ last.status \in Reverting <=> last.err # NoError

\* A withdraw from a Defi pool that had settled pending interest before its
\* balance requirement failed: the receipt reports Reverted.
C14_Witness ==
    /\ deployed = "Defi"
    /\ last.tag = "Write"
    /\ last.fn = "withdraw"
    /\ last.status \in Reverting
    /\ last.dirty
    /\ events # <<>>

\* The state of a Counter after n increments and nothing else: count is n,
\* a Read of count returns n, and the log holds Incremented 1, ..., n.
Counted(n) ==
    /\ slots.count = n
    /\ Counter_get_count([tag |-> "Read", sender |-> Reader(deployed),
                          block |-> blockNumber], Enter(slots, events)).ret = n
    /\ Len(events) = n
    /\ \A i \in 1..n : events[i] = <<"Incremented", <<i>> >>

\* A step that is a transaction calling increment.
IncrementStep ==
    /\ last'.fn = "increment"
    /\ last'.tag = "Write"
    /\ calls' = calls + 1

\* C15: a freshly deployed Counter has counted nothing, and from a Counter
\* that has seen n increments and no other Write, one more increment gives
\* count = n + 1 with the log Incremented 1, ..., n + 1, while Reads in
\* between change nothing: so after n sequential increments (n = 3 is
\* reached) a Read of count returns n and the log is Incremented 1..n.
C15_IncrementsCounted ==
    /\ deployed = "Counter" => Counted(0)
    /\ [][(deployed = "Counter" /\ Counted(calls)
              /\ (IncrementStep \/ calls' = calls))
             => Counted(calls)']_vars

C15_Witness ==
    /\ deployed = "Counter"
    /\ calls = 3
    /\ last.fn = "increment"
    /\ last.tag = "Write"
    /\ Counted(3)
    /\ events = << <<"Incremented", <<1>> >>, <<"Incremented", <<2>> >>,
                   <<"Incremented", <<3>> >> >>

\* A transaction with every field of the build_transaction dictionary set.
Populated(t) ==
    /\ t.from # ""
    /\ t.to # ""
    /\ t.data # <<>>
    /\ t.gas > 0
    /\ t.gasPrice \in GasPrices
    /\ t.nonce \in Nat
    /\ t.chainId # 0

\* C16: every transaction handed to sign_transaction has its sender, target,
\* call data, gas limit, gas price, nonce and chain id set, and its chain id
\* is the chain id of the network the account's connection points at; the
\* payload handed to send_raw_transaction decodes to exactly the transaction
\* that was signed, and so does every transaction the node holds.
C16_SignedTxComplete ==
    /\ \A p \in Procs :
          /\ signTries[p] > 0
                => Populated(tx[p]) /\ tx[p].chainId = NetworkChainId
          /\ signed[p] => raw[p] = RawOf(tx[p])
          /\ attempts[p] > 0 => signed[p] /\ Sent(p) = tx[p]
          /\ sendResult[p] = "accepted" => txHash[p] = HashOf(tx[p])
    /\ \A u \in pool : Populated(u) /\ u.chainId = NetworkChainId

\* A signed transaction was broadcast and the node holds it.
C16_Witness ==
    \E p \in Procs :
        /\ pc[p] = "wait"
        /\ signed[p]
        /\ attempts[p] = 1
        /\ Sent(p) \in pool
        /\ Sent(p).nonce = 1

\* The step of a run in which the contract reads in front of a call are
\* made (owner(), balanceOf(), ownerBalance(), isPaused() ... .call()).
ReadStep(p) ==
    /\ pc[p] = "begin"
    /\ StepOf(p).reads
    /\ pc'[p] # pc[p] \/ idx'[p] # idx[p]

\* C17: the contract reads of a script (get_balances and every .call())
\* consume no nonce: they leave the account's transaction count, the pending
\* transactions, the receipts and the last broadcast as they were, and the
\* run has queried no nonce, signed nothing and sent nothing by them.
C17_ReadsConsumeNoNonce ==
    [][\A p \in Procs :
          ReadStep(p)
              => /\ UNCHANGED <<txCount, pool, receipts, lastSent, lastIssued>>
                 /\ UNCHANGED <<nonce, tx, raw, attempts, signTries>>
                 /\ nonce'[p] = NoNonce
                 /\ attempts'[p] = 0]_vars

\* Reads were made after a transaction of the account had been included, and
\* the call that follows them is about to query the nonce.
C17_Witness ==
    \E p \in Procs :
        /\ pc[p] = "nonce"
        /\ StepOf(p).reads
        /\ idx[p] > 1
        /\ txCount = 1
        /\ lastSent = 0
        /\ nonce[p] = NoNonce

\* The calls the helpers guard with the owner comparison.
OwnerOnlyCalls == {"mint", "setRewardRate", "pause", "unpause"}

AtOwnerOnlyCall(p) ==
    /\ idx[p] \in DOMAIN Program(p)
    /\ StepOf(p).fn \in OwnerOnlyCalls

\* The account's address and the address owner() returns are the same
\* address, whatever the case of their hex digits.
AccountOwns == Lower(AccountAddress) = Lower(contractOwner)

\* C18: a run is inside an owner-only call, or back from one, only when the
\* account's address equals owner() without regard to case; when it does
\* not, the run at such a step has queried no nonce, built, signed and sent
\* nothing and holds no result, and the node holds no owner-only transaction.
C18_OwnerOnlyGuarded ==
    /\ \A p \in Procs :
          AtOwnerOnlyCall(p)
              => /\ pc[p] \notin {"begin", "done"} => AccountOwns
                 /\ ~AccountOwns
                       => /\ nonce[p] = NoNonce
                          /\ tx[p] = NoTx
                          /\ signTries[p] = 0
                          /\ attempts[p] = 0
                          /\ raw[p] = NoRaw
                          /\ ret[p] = NoResult
    /\ \A u \in pool : u.data[2] \in OwnerOnlyCalls => AccountOwns

\* The owner's address is spelled in another case than the account's, and
\* the mint of a run has been broadcast.
C18_Witness ==
    /\ contractOwner # AccountAddress
    /\ \E p \in Procs :
          /\ pc[p] = "wait"
          /\ StepOf(p).fn = "mint"
          /\ Sent(p) \in pool

\* The methods StakeToken documents as owner only.
StakeOwnerOnly == {"mint", "set_reward_rate", "pause", "unpause"}

\* C19: in StakeToken a transaction calling mint, set_reward_rate, pause or
\* unpause whose sender is not the owner changes no state variable and
\* emits no event.
C19_StakeAdminOwnerOnly ==
    (/\ deployed = "StakeToken"
     /\ last.tag = "Write"
     /\ last.fn \in StakeOwnerOnly
     /\ last.sender # last.pre.slots.owner)
        => slots = last.pre.slots /\ events = last.pre.events

\* The balances and the supply of a StakeToken state.
StakeHoldings(s) ==
    <<s.owner_balance, s.user_balance, s.user_stake, s.user_reward, s.total_supply>>

\* C20: a StakeToken transaction made while is_paused = 1 leaves
\* owner_balance, user_balance, user_stake, user_reward and total_supply as
\* they were, and a transfer or stake among them emits TransferFailed or
\* StakeFailed and nothing else.
C20_PausedStopsOperations ==
    (/\ deployed = "StakeToken"
     /\ last.tag = "Write"
     /\ last.pre.slots.is_paused = 1)
        => /\ StakeHoldings(slots) = StakeHoldings(last.pre.slots)
           /\ last.fn = "transfer"
                 => events = Append(last.pre.events,
                                    <<"TransferFailed", <<"Contract is paused">> >>)
           /\ last.fn = "stake"
                 => events = Append(last.pre.events,
                                    <<"StakeFailed", <<"Contract is paused">> >>)

\* C21: in BeginnerToken and MintableToken a transaction calling mint
\* succeeds only when its sender is the owner / admin recorded at
\* construction and the amount is positive; a mint by another sender or with
\* amount <= 0 fails with nothing assigned, and total_supply, the balances
\* and the event log are what they were before the call.
C21_MintOwnerAndPositive ==
    (/\ deployed \in {"BeginnerToken", "MintableToken"}
     /\ last.tag = "Write"
     /\ last.fn = "mint")
        => LET recorded == IF deployed = "BeginnerToken"
                           THEN Constructed(deployed).owner
                           ELSE Constructed(deployed).admin
               amount == last.args[Len(last.args)]
               allowed == last.sender = recorded /\ amount > 0
           IN  /\ last.err = NoError <=> allowed
               /\ allowed
                     => /\ slots.total_supply = last.pre.slots.total_supply + amount
                        /\ Len(events) = Len(last.pre.events) + 1
                        /\ events[Len(events)][1] = "Mint"
               /\ ~allowed
                     => /\ ~last.dirty
                        /\ slots = last.pre.slots
                        /\ events = last.pre.events

\* A mint of one token sent by someone other than the admin failed, after
\* an earlier mint by the admin had gone through.
C21_Witness ==
    /\ deployed = "MintableToken"
    /\ last.tag = "Write"
    /\ last.fn = "mint"
    /\ last.sender # Deployer
    /\ last.args[2] = 1
    /\ last.err = "Only admin can mint"
    /\ slots.total_supply > 0
    /\ events # <<>>

\* C22: in StakeToken the tokens held are conserved in every reachable
\* state: owner_balance + user_balance + user_stake = total_supply.
C22_StakeTokensConserved ==
    deployed = "StakeToken"
        => slots.owner_balance + slots.user_balance + slots.user_stake
               = slots.total_supply

RECURSIVE SumOver(_, _)
\* sum(balances.values()) over the keys in `keys`.
SumOver(m, keys) ==
    IF keys = {} THEN 0
    ELSE LET k == CHOOSE x \in keys : TRUE
         IN  m[k] + SumOver(m, keys \ {k})

\* C23: in BeginnerToken and in MintableToken the balances add up to
\* total_supply in every reachable state, whatever transfers (also to the
\* sender itself), mints and burns succeeded or failed before.
C23_BalancesSumToSupply ==
    deployed \in {"BeginnerToken", "MintableToken"}
        => SumOver(slots.balances, DOMAIN slots.balances) = slots.total_supply

\* A transfer of one token from the sender to itself went through, after
\* the supply had been changed by a mint.
C23_Witness ==
    /\ deployed \in {"BeginnerToken", "MintableToken"}
    /\ last.tag = "Write"
    /\ last.fn = "transfer"
    /\ last.err = NoError
    /\ last.args[1] = last.sender
    /\ slots.total_supply \notin {0, 1000000}
    /\ SumOver(slots.balances, DOMAIN slots.balances) = slots.total_supply

\* C24: a Defi withdraw of more than the caller holds, pending interest
\* included, fails with "Insufficient balance", and balances,
\* total_deposits, last_update and the event log are afterwards exactly what
\* they were before the call, also when blocks have passed since the
\* caller's last update and the body had already settled the interest.
C24_WithdrawFailsWhole ==
    (/\ deployed = "Defi"
     /\ last.tag = "Write"
     /\ last.fn = "withdraw")
        => LET c == [tag |-> "Write", sender |-> last.sender, block |-> last.block]
               pre == Enter(last.pre.slots, last.pre.events)
               held == BalanceOf(Defi_apply_interest(c, pre, last.sender), last.sender)
           IN  last.args[1] > held
                  => /\ last.err = "Insufficient balance"
                     /\ last.status \in Reverting
                     /\ slots.balances = last.pre.slots.balances
                     /\ slots.total_deposits = last.pre.slots.total_deposits
                     /\ slots.last_update = last.pre.slots.last_update
                     /\ slots = last.pre.slots
                     /\ events = last.pre.events

\* A withdraw of 500 by a caller holding 200 with interest pending for a
\* block that has passed since the deposit.
C24_Witness ==
    /\ deployed = "Defi"
    /\ last.tag = "Write"
    /\ last.fn = "withdraw"
    /\ last.args = <<500>>
    /\ last.err = "Insufficient balance"
    /\ Get(last.pre.slots.balances, last.sender, 0) = 200
    /\ last.block > Get(last.pre.slots.last_update, last.sender, last.block)
    /\ last.dirty

\* C25: in Defi total_deposits is the sum of the stored balances in every
\* reachable state, and no stored balance is negative (the amounts passed
\* are not negative).
C25_DepositsSumToTotal ==
    deployed = "Defi"
        => /\ SumOver(slots.balances, DOMAIN slots.balances) = slots.total_deposits
           /\ \A u \in DOMAIN slots.balances : slots.balances[u] >= 0

\* Interest was settled into a balance by a later deposit or withdraw, and
\* two accounts hold deposits or one holds a deposit with interest.
C25_Witness ==
    /\ deployed = "Defi"
    /\ \E i \in 1..Len(events) : events[i][1] = "InterestApplied"
    /\ slots.total_deposits \notin {0, 200, 500}
    /\ SumOver(slots.balances, DOMAIN slots.balances) = slots.total_deposits

\* C26: in Defi, for every user and at every reachable state and block
\* number, balance_of(user) returns the balance that is stored for the user
\* right after _apply_interest(user) has run at that block number.
C26_ReadPathEqualsWritePath ==
    deployed = "Defi"
        => \A user \in Callers :
              LET st == Enter(slots, events)
                  asRead == [tag |-> "Read", sender |-> Reader(deployed),
                             block |-> blockNumber]
                  asWrite == [tag |-> "Write", sender |-> user, block |-> blockNumber]
              IN  Defi_balance_of(asRead, st, user).ret
                     = BalanceOf(Defi_apply_interest(asWrite, st, user), user)

\* C27: in Defi interest_rate never exceeds 10000; it changes only in a
\* set_interest_rate transaction sent by the admin recorded at construction
\* with new_rate <= 10000, which sets it to new_rate; a set_interest_rate by
\* anyone else or with new_rate > 10000 fails with nothing assigned and
\* leaves interest_rate and the event log as they were.
C27_RateAdminOnlyAndCapped ==
    /\ [](deployed = "Defi" => slots.interest_rate <= 10000)
    /\ [][deployed = "Defi"
             => /\ slots'.interest_rate # slots.interest_rate
                   => /\ last'.tag = "Write"
                      /\ last'.fn = "set_interest_rate"
                      /\ last'.sender = Constructed(deployed).admin
                      /\ last'.args[1] <= 10000
                      /\ slots'.interest_rate = last'.args[1]
                      /\ calls' = calls + 1
                /\ (/\ calls' = calls + 1
                    /\ last'.fn = "set_interest_rate"
                    /\ (last'.sender # Constructed(deployed).admin
                           \/ last'.args[1] > 10000))
                   => /\ last'.err # NoError
                      /\ ~last'.dirty
                      /\ slots'.interest_rate = slots.interest_rate
                      /\ events' = events]_vars

\* The admin's set_interest_rate(10001) was refused after deposits had been
\* made.
C27_Witness ==
    /\ deployed = "Defi"
    /\ last.tag = "Write"
    /\ last.fn = "set_interest_rate"
    /\ last.sender = Deployer
    /\ last.args = <<10001>>
    /\ last.err = "Rate cannot exceed 100%"
    /\ slots.interest_rate = 500
    /\ events # <<>>

\* C28: in Counter count is never negative; a decrement at count = 0 leaves
\* count at 0 and emits nothing; an increment adds one and a decrement at
\* count > 0 takes one off, and the Incremented or Decremented event each
\* emits carries the value count has right after the change.
C28_CountNeverNegative ==
    deployed = "Counter"
        => /\ slots.count >= 0
           /\ \A i \in 1..Len(events) :
                 events[i][1] \in {"Incremented", "Decremented"}
                     => events[i][2][1] >= 0
           /\ (last.tag = "Write" /\ last.fn = "decrement" /\ last.pre.slots.count = 0)
                 => /\ slots.count = 0
                    /\ events = last.pre.events
                    /\ last.err = NoError
           /\ (last.tag = "Write" /\ last.fn = "decrement" /\ last.pre.slots.count > 0)
                 => /\ slots.count = last.pre.slots.count - 1
                    /\ events = Append(last.pre.events,
                                       <<"Decremented", <<slots.count>> >>)
           /\ (last.tag = "Write" /\ last.fn = "increment")
                 => /\ slots.count = last.pre.slots.count + 1
                    /\ events = Append(last.pre.events,
                                       <<"Incremented", <<slots.count>> >>)

\* A decrement found count at 0 after the counter had been incremented and
\* decremented once.
C28_Witness ==
    /\ deployed = "Counter"
    /\ last.tag = "Write"
    /\ last.fn = "decrement"
    /\ last.pre.slots.count = 0
    /\ slots.count = 0
    /\ events = << <<"Incremented", <<1>> >>, <<"Decremented", <<0>> >> >>

\* C29: the test script attempts mint, transfer and stake in this order and
\* always reaches its final balance summary: whatever way a step's call
\* ended (confirmed, reverted, timed out, failed with an exception) the
\* next step follows, and a step queries the nonce only from its own
\* beginning, when no receipt wait of an earlier step is open.
C29_TestRunsThrough ==
    /\ <>(pc["test"] = "done")
    /\ [](pc["test"] = "done" => idx["test"] = Len(TestProgram) + 1)
    /\ [](InCall("test")
             => StepOf("test").fn = <<"mint", "transfer", "stake">>[idx["test"]])
    /\ [][idx'["test"] \in {idx["test"], idx["test"] + 1}]_vars
    /\ [][(pc["test"] = "returned" /\ pc'["test"] # "returned")
             => /\ idx'["test"] = idx["test"] + 1
                /\ pc'["test"] = IF idx["test"] = Len(TestProgram)
                                 THEN "done" ELSE "begin"]_vars
    /\ [][(pc'["test"] = "nonce" /\ pc["test"] # "nonce")
             => /\ pc["test"] = "begin"
                /\ txHash["test"] = NoHash
                /\ elapsed["test"] = 0
                /\ receipt["test"] = NoReceipt]_vars

\* The test script, run on its own, is at its final summary while a
\* transaction of one of its steps is still pending at the node: that
\* step's wait ran out, and the step after it was refused by the node.
C29_Witness ==
    /\ pc["test"] = "done"
    /\ idx["test"] = Len(TestProgram) + 1
    /\ ~Started("examples")
    /\ txCount = 1
    /\ pool # {}

====
